---- MODULE Spec2Model ----
(***************************************************************************)
(* Model of capcut-automate.js: one run of the render automation, from the *)
(* reading of the trigger payload to process exit.  Every awaited call on  *)
(* the outside world (fetch, puppeteer) is an input of the action that     *)
(* makes it; the values computed by the script (file names, the caption    *)
(* list, the loop caps) are operators translated from the JavaScript.      *)
(***************************************************************************)
EXTENDS Integers, Sequences, FiniteSets, TLC

(***************************************************************************)
(* Bounds of the model.                                                    *)
(***************************************************************************)
MaxAssets == 2        \* longest asset list drawn
MaxScriptLen == 2     \* longest freely composed caption list
MaxLongLen == 7       \* longest uniform caption list (beyond the cap of 6)
MaxThumbs == 13       \* most thumbnails the page shows (beyond the cap of 12)
MaxFaults == 2        \* most soft deviations from the nominal outcome per run

(***************************************************************************)
(* Literals of the script.                                                 *)
(***************************************************************************)
CaptionCap == 6
ThumbCap == 12
ExitFatal == 1
ExitNatural == 0
NoExit == -1
tmpDir == "/tmp/capcut_assets"
outDir == "/tmp"
DefaultExt == <<".", "m", "p", "4">>
DefaultOutputName == "capcut_export_<now>.mp4"
Undef == "<undefined>"

Min(a, b) == IF a < b THEN a ELSE b

(***************************************************************************)
(* path.extname (posix) on a string given as a sequence of characters:     *)
(* the backward scan of the library, state carried through the recursion.  *)
(* i runs from Len(p) down to 1; startDot, end and startPart are 0-based   *)
(* as in the library, -1 when unset.                                       *)
(***************************************************************************)
RECURSIVE ExtScan(_, _, _)
ExtScan(p, i, st) ==
  IF i = 0 THEN st
  ELSE LET c == p[i]
           k == i - 1
       IN IF c = "/"
            THEN IF ~st.matchedSlash
                   THEN [st EXCEPT !.startPart = k + 1]
                   ELSE ExtScan(p, i - 1, st)
            ELSE LET s1 == IF st.end = -1
                             THEN [st EXCEPT !.matchedSlash = FALSE, !.end = k + 1]
                             ELSE st
                     s2 == IF c = "."
                             THEN IF s1.startDot = -1
                                    THEN [s1 EXCEPT !.startDot = k]
                                    ELSE IF s1.preDotState # 1
                                           THEN [s1 EXCEPT !.preDotState = 1]
                                           ELSE s1
                             ELSE IF s1.startDot # -1
                                    THEN [s1 EXCEPT !.preDotState = -1]
                                    ELSE s1
                 IN ExtScan(p, i - 1, s2)

Extname(p) ==
  LET st == ExtScan(p, Len(p), [startDot |-> -1, startPart |-> 0, end |-> -1,
                                matchedSlash |-> TRUE, preDotState |-> 0])
  IN IF \/ st.startDot = -1
        \/ st.end = -1
        \/ st.preDotState = 0
        \/ (st.preDotState = 1 /\ st.startDot = st.end - 1
                               /\ st.startDot = st.startPart + 1)
       THEN <<>>
       ELSE SubSeq(p, st.startDot + 1, st.end)

(* s.split('?')[0] *)
RECURSIVE BeforeQuery(_)
BeforeQuery(s) ==
  IF s = <<>> \/ Head(s) = "?" THEN <<>> ELSE <<Head(s)>> \o BeforeQuery(Tail(s))

(* path.extname(url).split('?')[0] || '.mp4' *)
AssetExt(url) ==
  LET e == BeforeQuery(Extname(url)) IN IF e = <<>> THEN DefaultExt ELSE e

(* path.join(tmpDir, `asset_${i}${ext}`), i 0-based as in the loop *)
AssetFilename_noIndex(i, url) == [dir |-> tmpDir, stem |-> "asset_", idx |-> 0, ext |-> AssetExt(url)]

AssetFilename(i, url) == [dir |-> tmpDir, stem |-> "asset_", idx |-> i, ext |-> AssetExt(url)]

(* !res.ok *)
ResNotOk_never(res) == FALSE

ResNotOk(res) == res # "ok"

(* payload.outputName || `capcut_export_${Date.now()}.mp4` *)
OutputName_default(p) == DefaultOutputName

OutputName(p) == IF p.outputName = Undef THEN DefaultOutputName ELSE p.outputName

OutPath(p) == [dir |-> outDir, name |-> OutputName(p)]

(***************************************************************************)
(* JavaScript values of a caption script and their JSON text.  A value is  *)
(* a string or an object with optional members time and text; a JSON text  *)
(* is a sequence of lexical tokens.                                        *)
(***************************************************************************)
JStr(s) == [t |-> "str", text |-> s, time |-> Undef]
JObj(time, text) == [t |-> "obj", text |-> text, time |-> time]

Tok(k, v) == [k |-> k, v |-> v]
P(c) == Tok("punct", c)

StringifyEntry(e) ==
  IF e.t = "str" THEN <<Tok("str", e.text)>>
  ELSE <<P("{")>>
       \o (IF e.time # Undef THEN <<Tok("str", "time"), P(":"), Tok("num", e.time)>> ELSE <<>>)
       \o (IF e.time # Undef /\ e.text # Undef THEN <<P(",")>> ELSE <<>>)
       \o (IF e.text # Undef THEN <<Tok("str", "text"), P(":"), Tok("str", e.text)>> ELSE <<>>)
       \o <<P("}")>>

RECURSIVE StringifyElems(_)
StringifyElems(l) ==
  IF l = <<>> THEN <<>>
  ELSE StringifyEntry(Head(l))
       \o (IF Len(l) > 1 THEN <<P(",")>> ELSE <<>>)
       \o StringifyElems(Tail(l))

(* JSON.stringify of a list of entries *)
JSONStringify(l) == <<P("[")>> \o StringifyElems(l) \o <<P("]")>>

Fail == [ok |-> FALSE, val |-> <<>>, next |-> 0]
At(toks, i) == IF i >= 1 /\ i <= Len(toks) THEN toks[i] ELSE Tok("eof", "")

(* members of an object after '{': "key" : value (, "key" : value)* '}' *)
RECURSIVE ParseMembers(_, _, _)
ParseMembers(toks, i, acc) ==
  LET key == At(toks, i)
      val == At(toks, i + 2)
      sep == At(toks, i + 3)
  IN IF key.k # "str" \/ At(toks, i + 1) # P(":") THEN Fail
     ELSE IF ~(val.k \in {"str", "num"}) THEN Fail
     ELSE LET acc2 == IF key.v = "text" /\ val.k = "str" THEN [acc EXCEPT !.text = val.v]
                      ELSE IF key.v = "time" /\ val.k = "num" THEN [acc EXCEPT !.time = val.v]
                      ELSE acc
          IN IF sep = P("}") THEN [ok |-> TRUE, val |-> <<acc2>>, next |-> i + 4]
             ELSE IF sep = P(",") THEN ParseMembers(toks, i + 4, acc2)
             ELSE Fail

ParseEntry(toks, i) ==
  LET t == At(toks, i)
  IN IF t.k = "str" THEN [ok |-> TRUE, val |-> <<JStr(t.v)>>, next |-> i + 1]
     ELSE IF t = P("{")
       THEN IF At(toks, i + 1) = P("}")
              THEN [ok |-> TRUE, val |-> <<JObj(Undef, Undef)>>, next |-> i + 2]
              ELSE ParseMembers(toks, i + 1, JObj(Undef, Undef))
     ELSE Fail

(* elements of an array after '[': value (, value)* ']' *)
RECURSIVE ParseElems(_, _, _)
ParseElems(toks, i, acc) ==
  LET r == ParseEntry(toks, i)
  IN IF ~r.ok THEN Fail
     ELSE LET sep == At(toks, r.next)
          IN IF sep = P("]") THEN [ok |-> TRUE, val |-> acc \o r.val, next |-> r.next + 1]
             ELSE IF sep = P(",") THEN ParseElems(toks, r.next + 1, acc \o r.val)
             ELSE Fail

(* JSON.parse of a text that is to be a list of entries; ok = FALSE is the *)
(* SyntaxError the call throws.                                            *)
JSONParse(toks) ==
  IF At(toks, 1) # P("[") THEN [ok |-> FALSE, val |-> <<>>]
  ELSE IF At(toks, 2) = P("]")
    THEN [ok |-> Len(toks) = 2, val |-> <<>>]
    ELSE LET r == ParseElems(toks, 2, <<>>)
         IN IF r.ok /\ r.next = Len(toks) + 1
              THEN [ok |-> TRUE, val |-> r.val]
              ELSE [ok |-> FALSE, val |-> <<>>]

(***************************************************************************)
(* Inputs of a run.                                                        *)
(***************************************************************************)
UrlMp4 == <<"x", "/", "a", ".", "m", "p", "4">>          \* http://x/a.mp4
UrlNoExt == <<"x", "/", "u", "c", "?", "i", "d">>        \* .../uc?id=...
UrlPngQuery == <<"x", "/", "b", ".", "p", "n", "g", "?", "t">>   \* .../b.png?t
Urls == {UrlMp4, UrlNoExt, UrlPngQuery}

SeqsUpTo(S, n) == UNION {[1..m -> S] : m \in 0..n}

ObjHook == JObj(Undef, "Hook")
ObjTimed == JObj("0", "Bye")
StrGo == JStr("Go")
ObjNoText == JObj("1", Undef)
Entries == {ObjHook, StrGo, ObjNoText}
TimedLists == {<<ObjTimed>>, <<ObjTimed, ObjHook>>}

LongLists == {[j \in 1..n |-> ObjHook] : n \in CaptionCap..MaxLongLen}
ScriptLists == SeqsUpTo(Entries, MaxScriptLen) \cup TimedLists \cup LongLists

(* payload.scriptText: undefined, an array, or a string (its JSON tokens) *)
SUndef == [t |-> "undef", arr |-> <<>>, raw |-> <<>>]
SArr(l) == [t |-> "array", arr |-> l, raw |-> <<>>]
SRaw(toks) == [t |-> "string", arr |-> <<>>, raw |-> toks]

PlainText == <<Tok("ident", "Hook")>>                    \* a plain text block
JsLiteral == <<P("["), P("{"), Tok("ident", "text"), P(":"), Tok("sqstr", "Hook"), P("}"), P("]")>>
                                                         \* "[ {text:'Hook'} ]"
HookJson == JSONStringify(<<ObjHook>>)                   \* "[{\"text\":\"Hook\"}]"

OutputNames == {Undef, "out.mp4"}

(* client_payload as read from the event file; kind tells what the file held *)
Payload(kind, hasUrls, urls, script, out) ==
  [kind |-> kind, hasUrls |-> hasUrls, assetUrls |-> urls, scriptText |-> script, outputName |-> out]

BadPayloads ==
  {Payload(k, FALSE, <<>>, SUndef, Undef) : k \in {"noEventPath", "badJson", "noClientPayload"}}

MainScripts == {SUndef, SRaw(<<>>), SArr(<<ObjHook>>), SRaw(HookJson), SRaw(PlainText)}

MainPayloads ==
  BadPayloads
  \cup {Payload("ok", FALSE, <<>>, s, o) : s \in {SUndef}, o \in OutputNames}
  \cup {Payload("ok", TRUE, u, SArr(<<ObjHook>>), "out.mp4") : u \in SeqsUpTo(Urls, MaxAssets)}
  \cup {Payload("ok", TRUE, <<UrlMp4>>, s, o) : s \in MainScripts, o \in OutputNames}

CapScripts ==
  {SArr(l) : l \in ScriptLists} \cup {SRaw(JSONStringify(l)) : l \in ScriptLists}
  \cup {SUndef, SRaw(<<>>), SRaw(PlainText), SRaw(JsLiteral)}

CapPayloads ==
  BadPayloads
  \cup {Payload("ok", TRUE, <<UrlMp4>>, s, "out.mp4") : s \in CapScripts}
  \cup {Payload("ok", TRUE, <<UrlMp4, UrlNoExt>>, SArr(<<ObjHook>>), Undef)}

(***************************************************************************)
(* State of a run.                                                         *)
(***************************************************************************)
VARIABLES
  pc,            \* position in the script
  payload,       \* client_payload (never written)
  creds,         \* CAPCUT_EMAIL && CAPCUT_PASSWORD are set
  i,             \* index of the asset loop
  localFiles,    \* localFiles
  files,         \* files written under tmpDir: {[path, body]}
  fetched,       \* asset urls passed to fetch, in order
  browser,       \* "none", "open", "closed"
  exitCode,      \* process exit status, NoExit while running
  exitVia,       \* "none", "fatal", "natural", "unhandled"
  obs,           \* what each step met on the page or the network
  up,            \* what the upload step met
  poll,          \* what the poll step met
  faults,        \* soft deviations met so far
  uploaded,      \* arguments of fileInput2.uploadFile, in order
  thumbClicks,   \* thumbnails clicked
  scriptObj,     \* scriptObj
  addTextBtn,    \* addTextBtn.length > 0
  ci,            \* index of the caption loop
  capObs,        \* outcome of each caption iteration
  typed,         \* texts given to page.keyboard.type, in order
  addTextClicks, \* clicks on addTextBtn[0]
  exportClicks,  \* clicks on exportBtn[0]
  artifacts,     \* files written under /tmp: {[path, status]}
  log,           \* console.error / console.warn lines
  steps          \* UI steps entered

dlVars == <<i, localFiles, files, fetched>>
exVars == <<exitCode, exitVia>>
obVars == <<obs, up, poll, faults>>
capVars == <<scriptObj, addTextBtn, ci, capObs, typed, addTextClicks>>
uiVars == <<uploaded, thumbClicks, exportClicks, artifacts>>
vars == <<pc, payload, creds, dlVars, browser, exVars, obVars, capVars, uiVars, log, steps>>

NoUp == [direct |-> FALSE, btn |-> FALSE, after |-> FALSE, err |-> FALSE]
NoPoll == [wait |-> "none", el |-> FALSE, ref |-> "none", res |-> "none"]
NoObs == [asset |-> "none", launch |-> "none", goto |-> "none", loginBtn |-> "none",
          emailLogin |-> "none", create |-> "none", timeline |-> "none",
          capOpen |-> "none", export |-> "none"]

InitWith(payloads, credSet) ==
  /\ payload \in payloads
  /\ creds \in credSet
  /\ pc = "start"
  /\ i = 0 /\ localFiles = <<>> /\ files = {} /\ fetched = <<>>
  /\ browser = "none"
  /\ exitCode = NoExit /\ exitVia = "none"
  /\ obs = NoObs /\ up = NoUp /\ poll = NoPoll /\ faults = 0
  /\ uploaded = <<>> /\ thumbClicks = 0 /\ exportClicks = 0 /\ artifacts = {}
  /\ scriptObj = <<>> /\ addTextBtn = FALSE /\ ci = 0 /\ capObs = <<>>
  /\ typed = <<>> /\ addTextClicks = 0
  /\ log = {} /\ steps = {}

Init == InitWith(MainPayloads, BOOLEAN)
InitCap == InitWith(CapPayloads, {TRUE})

(***************************************************************************)
(* Ways out of the process.                                                *)
(***************************************************************************)
Line(lvl, msg, n) == [lvl |-> lvl, msg |-> msg, n |-> n]
Error(msg) == Line("error", msg, -1)
Warning(msg) == Line("warn", msg, -1)

Exit(code, via) == pc' = "done" /\ exitCode' = code /\ exitVia' = via

(* A rejection of the async body that nothing catches: the runtime ends    *)
(* the process with status 1 (Node 15 and later) or lets it run out with   *)
(* status 0 (earlier versions); no statement of the script runs after it.  *)
UnhandledCodes == {0, 1}
Unhandled == \E c \in UnhandledCodes : Exit(c, "unhandled")

(* a deviation from the nominal outcome is taken only within the budget *)
Soft(nominal) ==
  /\ nominal \/ faults < MaxFaults
  /\ faults' = IF nominal THEN faults ELSE faults + 1

(***************************************************************************)
(* Lines 29-48: read and validate the payload.                             *)
(***************************************************************************)
(* !payload || !payload.assetUrls : an empty array is truthy *)
MissingFields(p) == p.kind = "noClientPayload" \/ ~p.hasUrls

ReadPayload ==
  /\ pc = "start"
  /\ IF payload.kind = "noEventPath"
       THEN /\ log' = log \cup {Error("GITHUB_EVENT_PATH env var missing")}
            /\ Exit(ExitFatal, "fatal")
       ELSE IF payload.kind = "badJson"
         THEN /\ Unhandled                       \* JSON.parse throws at line 34
              /\ UNCHANGED log
         ELSE IF MissingFields(payload)
           THEN /\ log' = log \cup {Error("Payload missing required fields")}
                /\ Exit(ExitFatal, "fatal")
           ELSE /\ pc' = IF Len(payload.assetUrls) = 0 THEN "launch" ELSE "download"
                /\ UNCHANGED <<exVars, log>>
  /\ UNCHANGED <<payload, creds, dlVars, browser, obVars, capVars, uiVars, steps>>

(***************************************************************************)
(* Lines 52-64: one iteration of the asset loop.                           *)
(***************************************************************************)
FetchOutcomes == {"ok", "notok", "throw"}

DownloadAsset ==
  /\ pc = "download"
  /\ i < Len(payload.assetUrls)
  /\ \E res \in FetchOutcomes :
       LET url == payload.assetUrls[i + 1]
           filename == AssetFilename(i, url)
       IN /\ fetched' = Append(fetched, url)
          /\ obs' = [obs EXCEPT !.asset = res]
          /\ IF res = "throw"
               THEN /\ Unhandled
                    /\ UNCHANGED <<i, localFiles, files, log>>
               ELSE IF ResNotOk(res)
                 THEN /\ log' = log \cup {Error("Failed to download asset")}
                      /\ Exit(ExitFatal, "fatal")
                      /\ UNCHANGED <<i, localFiles, files>>
                 ELSE /\ files' = {f \in files : f.path # filename}
                                    \cup {[path |-> filename, body |-> url]}
                      /\ localFiles' = Append(localFiles, filename)
                      /\ i' = i + 1
                      /\ pc' = IF i + 1 < Len(payload.assetUrls) THEN "download" ELSE "launch"
                      /\ UNCHANGED <<exVars, log>>
  /\ UNCHANGED <<payload, creds, browser, up, poll, faults, capVars, uiVars, steps>>

(***************************************************************************)
(* Lines 67-81: puppeteer.launch, newPage, setViewport.                    *)
(***************************************************************************)
Launch ==
  /\ pc = "launch"
  /\ \E r \in {"ok", "throw"} :
       /\ obs' = [obs EXCEPT !.launch = r]
       /\ IF r = "ok"
            THEN /\ browser' = "open"
                 /\ pc' = "goto"
                 /\ UNCHANGED exVars
            ELSE /\ Unhandled
                 /\ UNCHANGED browser
  /\ UNCHANGED <<payload, creds, dlVars, up, poll, faults, capVars, uiVars, log, steps>>

(***************************************************************************)
(* Line 85: page.goto, outside every try block.                            *)
(***************************************************************************)
Navigate ==
  /\ pc = "goto"
  /\ \E r \in {"ok", "throw"} :
       /\ obs' = [obs EXCEPT !.goto = r]
       /\ IF r = "ok"
            THEN /\ pc' = "login"
                 /\ UNCHANGED exVars
            ELSE Unhandled
  /\ UNCHANGED <<payload, creds, dlVars, browser, up, poll, faults, capVars, uiVars, log, steps>>

(***************************************************************************)
(* Lines 88-95: click the login button if it shows up.                     *)
(***************************************************************************)
LoginClick ==
  /\ pc = "login"
  /\ \E r \in {"found", "absent"} :
       /\ Soft(r = "found")
       /\ obs' = [obs EXCEPT !.loginBtn = r]
       /\ log' = IF r = "found" THEN log ELSE log \cup {Warning("Login button not found")}
  /\ steps' = steps \cup {"login"}
  /\ pc' = "emailLogin"
  /\ UNCHANGED <<payload, creds, dlVars, browser, exVars, up, poll, capVars, uiVars>>

(***************************************************************************)
(* Lines 98-116: email login when the field exists and credentials are set.*)
(***************************************************************************)
EmailLogin ==
  /\ pc = "emailLogin"
  /\ \E emailExists \in BOOLEAN, threw \in BOOLEAN :
       LET r == IF threw THEN "fail"
                ELSE IF emailExists /\ creds THEN "done" ELSE "skipped"
       IN /\ Soft(~threw)
          /\ obs' = [obs EXCEPT !.emailLogin = r]
          /\ log' = IF threw THEN log \cup {Warning("Login attempt failed")} ELSE log
  /\ steps' = steps \cup {"emailLogin"}
  /\ pc' = "create"
  /\ UNCHANGED <<payload, creds, dlVars, browser, exVars, up, poll, capVars, uiVars>>

(***************************************************************************)
(* Lines 120-132: click "New Project" / "Create" if found.                 *)
(***************************************************************************)
CreateProject ==
  /\ pc = "create"
  /\ \E r \in {"clicked", "absent", "throw"} :
       /\ Soft(r = "clicked")
       /\ obs' = [obs EXCEPT !.create = r]
       /\ log' = IF r = "throw" THEN log \cup {Warning("Create project step may require manual setup")}
                 ELSE log
  /\ steps' = steps \cup {"create"}
  /\ pc' = "upload"
  /\ UNCHANGED <<payload, creds, dlVars, browser, exVars, up, poll, capVars, uiVars>>

(***************************************************************************)
(* Lines 136-159: find the file input, directly or after the upload/import *)
(* button, and attach every local file; any failure closes the browser and *)
(* exits with status 1.                                                    *)
(***************************************************************************)
(* !fileInput2 *)
NoFileInput(after) == ~after

(* the catch of the upload step: log, browser.close(), process.exit(1) *)
UploadCatch_soft ==
  /\ log' = log \cup {Warning("Upload step failed")}
  /\ pc' = "timeline"
  /\ UNCHANGED <<browser, exVars>>

UploadCatch ==
  /\ log' = log \cup {Error("Upload step failed")}
  /\ browser' = "closed"
  /\ Exit(ExitFatal, "fatal")

Upload ==
  /\ pc = "upload"
  /\ \E direct \in BOOLEAN, btn \in BOOLEAN, after \in BOOLEAN, err \in BOOLEAN :
       /\ direct => ~btn                         \* the button is looked up only without input
       /\ up' = [direct |-> direct, btn |-> btn, after |-> after, err |-> err]
       /\ IF err \/ NoFileInput(after)
            THEN /\ UploadCatch
                 /\ UNCHANGED <<uploaded, faults>>
            ELSE /\ Soft(direct)
                 /\ uploaded' = localFiles
                 /\ pc' = "timeline"
                 /\ UNCHANGED <<browser, exVars, log>>
  /\ steps' = steps \cup {"upload"}
  /\ UNCHANGED <<payload, creds, dlVars, obs, poll, capVars, thumbClicks, exportClicks, artifacts>>

(***************************************************************************)
(* Lines 163-174: wait for thumbnails and click up to 12 of them.  The     *)
(* caption block (lines 177-208) lies inside the same try: a throw here    *)
(* goes to the catch of line 209 and on to the export step.                *)
(***************************************************************************)
ThumbCounts == {0, ThumbCap, MaxThumbs}

ThumbClickCount(n) == Min(n, ThumbCap)

Timeline ==
  /\ pc = "timeline"
  /\ \E r \in {"ok", "throw"}, n \in ThumbCounts :
       /\ Soft(r = "ok")
       /\ obs' = [obs EXCEPT !.timeline = r]
       /\ IF r = "ok"
            THEN /\ thumbClicks' = ThumbClickCount(n)
                 /\ pc' = "captions"
                 /\ UNCHANGED log
            ELSE /\ log' = log \cup {Warning("Timeline population step had issues")}
                 /\ pc' = "export"
                 /\ UNCHANGED thumbClicks
  /\ steps' = steps \cup {"timeline"}
  /\ UNCHANGED <<payload, creds, dlVars, browser, exVars, up, poll, capVars,
                 uploaded, exportClicks, artifacts>>

(***************************************************************************)
(* Lines 177-187: open the text panel, build scriptObj, find "Add text".   *)
(***************************************************************************)
(* if (payload.scriptText) *)
Truthy(st) == st.t = "array" \/ (st.t = "string" /\ st.raw # <<>>)

(* Array.isArray(x) ? x : JSON.parse(x || '[]') *)
ScriptObj_arrayOnly(st) == IF st.t = "array" THEN [ok |-> TRUE, val |-> st.arr] ELSE [ok |-> TRUE, val |-> <<>>]

ScriptObj(st) == IF st.t = "array" THEN [ok |-> TRUE, val |-> st.arr] ELSE JSONParse(st.raw)

(* Math.min(6, scriptObj.length) *)
CaptionCount(n) == Min(CaptionCap, n)

CaptionOpen ==
  /\ pc = "captions"
  /\ IF ~Truthy(payload.scriptText)
       THEN /\ pc' = "export"
            /\ UNCHANGED <<obVars, capVars, log, steps>>
       ELSE /\ steps' = steps \cup {"captions"}
            /\ UNCHANGED <<up, poll, capObs, typed, addTextClicks>>
            /\ \E tb \in BOOLEAN, atb \in BOOLEAN, threw \in BOOLEAN :
                 LET parsed == ScriptObj(payload.scriptText)
                 IN /\ Soft(~threw /\ tb /\ atb)
                    /\ IF threw \/ ~parsed.ok
                         THEN /\ obs' = [obs EXCEPT !.capOpen = IF threw THEN "throw" ELSE "parseError"]
                              /\ log' = log \cup {Warning("Caption insertion partially failed")}
                              /\ pc' = "export"
                              /\ UNCHANGED <<scriptObj, addTextBtn, ci>>
                         ELSE /\ obs' = [obs EXCEPT !.capOpen = "ok"]
                              /\ scriptObj' = parsed.val
                              /\ addTextBtn' = atb
                              /\ ci' = 0
                              /\ pc' = IF CaptionCount(Len(parsed.val)) = 0 THEN "export" ELSE "capLoop"
                              /\ UNCHANGED log
  /\ UNCHANGED <<payload, creds, dlVars, browser, exVars, uiVars>>

(***************************************************************************)
(* Lines 188-204: one iteration of the caption loop.                       *)
(***************************************************************************)
(* scriptObj[i].text || scriptObj[i] : a string, or the entry itself *)
TypeArg(e) ==
  IF e.t = "str" THEN [isString |-> TRUE, text |-> e.text]
  ELSE IF e.text # Undef /\ e.text # "" THEN [isString |-> TRUE, text |-> e.text]
  ELSE [isString |-> FALSE, text |-> Undef]

CaptionAdd ==
  /\ pc = "capLoop"
  /\ ci < CaptionCount(Len(scriptObj))
  /\ LET arg == TypeArg(scriptObj[ci + 1])
         failed == Line("warn", "Add text failed for caption", ci)
     IN IF ~addTextBtn
          THEN /\ capObs' = Append(capObs, "noButton")
               /\ UNCHANGED <<typed, addTextClicks, log, faults>>
          ELSE /\ addTextClicks' = addTextClicks + 1
               /\ \E r \in {"input", "noInput", "throw"} :
                    LET out == IF r = "input" THEN (IF arg.isString THEN "typed" ELSE "typeError")
                               ELSE r
                    IN /\ Soft(r = "input")
                       /\ capObs' = Append(capObs, out)
                       /\ typed' = IF out = "typed" THEN Append(typed, arg.text) ELSE typed
                       /\ log' = IF out \in {"throw", "typeError"} THEN log \cup {failed} ELSE log
  /\ ci' = ci + 1
  /\ pc' = IF ci + 1 < CaptionCount(Len(scriptObj)) THEN "capLoop" ELSE "export"
  /\ UNCHANGED <<payload, creds, dlVars, browser, exVars, obs, up, poll,
                 scriptObj, addTextBtn, uiVars, steps>>

(***************************************************************************)
(* Lines 218-228: click Export / Download if found.                        *)
(***************************************************************************)
Export ==
  /\ pc = "export"
  /\ \E r \in {"clicked", "absent", "throw"} :
       /\ Soft(r = "clicked")
       /\ obs' = [obs EXCEPT !.export = r]
       /\ exportClicks' = IF r = "clicked" THEN exportClicks + 1 ELSE exportClicks
       /\ log' = IF r = "clicked" THEN log
                 ELSE IF r = "absent" THEN log \cup {Warning("Export button not found")}
                 ELSE log \cup {Warning("Export step failed")}
  /\ steps' = steps \cup {"export"}
  /\ pc' = "poll"
  /\ UNCHANGED <<payload, creds, dlVars, browser, exVars, up, poll, capVars,
                 uploaded, thumbClicks, artifacts>>

(***************************************************************************)
(* Lines 231-254: wait for the download element, read its reference,       *)
(* fetch it and write the body under the output name.                      *)
(***************************************************************************)
(* fetch(downloadUrl): a null reference is no absolute URL, fetch rejects *)
ArtifactFetch(ref, res) == IF ref = "null" THEN "throw" ELSE res

(* lines 240-243: the body of any response is written, r.ok is not read *)
ArtifactWritten_okOnly(r) == r = "ok"

ArtifactWritten(r) == r # "throw"

Poll ==
  /\ pc = "poll"
  /\ \E w \in {"appear", "timeout"}, el \in BOOLEAN, ref \in {"null", "url"}, res \in FetchOutcomes :
       LET seen == w = "appear" /\ el
           r == IF seen THEN ArtifactFetch(ref, res) ELSE "none"
       IN /\ poll' = [wait |-> w, el |-> seen, ref |-> IF seen THEN ref ELSE "none", res |-> r]
          /\ artifacts' = IF seen /\ ArtifactWritten(r)
                            THEN {a \in artifacts : a.path # OutPath(payload)}
                                   \cup {[path |-> OutPath(payload), status |-> r]}
                            ELSE artifacts
          /\ log' = IF w = "timeout" \/ (seen /\ ~ArtifactWritten(r))
                      THEN log \cup {Warning("Export/download polling failed")}
                    ELSE IF ~seen
                      THEN log \cup {Warning("Download button found but could not extract URL")}
                    ELSE log
  /\ steps' = steps \cup {"poll"}
  /\ pc' = "close"
  /\ UNCHANGED <<payload, creds, dlVars, browser, exVars, obs, up, faults, capVars,
                 uploaded, thumbClicks, exportClicks>>

(***************************************************************************)
(* Lines 256-257: browser.close(), process.exit(0).                        *)
(***************************************************************************)
Teardown_noClose ==
  /\ pc = "close"
  /\ Exit(ExitNatural, "natural")
  /\ UNCHANGED <<payload, creds, dlVars, browser, obVars, capVars, uiVars, log, steps>>

Teardown ==
  /\ pc = "close"
  /\ browser' = "closed"
  /\ Exit(ExitNatural, "natural")
  /\ UNCHANGED <<payload, creds, dlVars, obVars, capVars, uiVars, log, steps>>

Next ==
  \/ ReadPayload
  \/ DownloadAsset
  \/ Launch
  \/ Navigate
  \/ LoginClick
  \/ EmailLogin
  \/ CreateProject
  \/ Upload
  \/ Timeline
  \/ CaptionOpen
  \/ CaptionAdd
  \/ Export
  \/ Poll
  \/ Teardown

Spec == Init /\ [][Next]_vars
SpecCap == InitCap /\ [][Next]_vars

(***************************************************************************)
(* Properties.                                                             *)
(***************************************************************************)
Done == pc = "done"
Urls_ == payload.assetUrls
LaterSteps == {"timeline", "captions", "export", "poll"}
PollFailedLine == Warning("Export/download polling failed")
ValidPayload == payload.kind = "ok" /\ payload.hasUrls /\ Urls_ # <<>>

(* C1: a payload whose assetUrls is absent or an empty list never gets a   *)
(* browser session, and its run exits with status 1.                       *)
C1_NoAssetsExitsBeforeBrowser ==
  (payload.kind \in {"ok", "noClientPayload"} /\ (~payload.hasUrls \/ Urls_ = <<>>))
    => /\ browser = "none"
       /\ Done => exitCode = ExitFatal

(* C2: a non-success response for the k-th asset ends the run there with   *)
(* status 1: k urls were fetched and no more, no browser, no UI step.      *)
C2_NotOkAborts ==
  obs.asset = "notok"
    => /\ Done /\ exitCode = ExitFatal /\ exitVia = "fatal"
       /\ fetched = SubSeq(Urls_, 1, Len(fetched))
       /\ Len(localFiles) = Len(fetched) - 1
       /\ browser = "none" /\ obs.launch = "none"
       /\ steps = {}

C2_Witness ==
  /\ obs.asset = "notok" /\ Done
  /\ Len(Urls_) = 2 /\ Len(fetched) = 1

(* C3: when the upload step is reached with N urls, N files exist, the     *)
(* k-th local path holds the body of the k-th url, and a completed upload  *)
(* attached exactly that list of paths in that order.                      *)
C3_FilesMatchUrls ==
  (pc = "upload" \/ "upload" \in steps)
    => /\ Len(localFiles) = Len(Urls_)
       /\ Cardinality(files) = Len(Urls_)
       /\ \A k \in 1..Len(Urls_) : [path |-> localFiles[k], body |-> Urls_[k]] \in files
       /\ \A k \in 1..Len(Urls_) : \A m \in 1..Len(Urls_) :
            localFiles[k] = localFiles[m] => k = m
       /\ ("upload" \in steps /\ up.after /\ ~up.err) => uploaded = localFiles

C3_Witness ==
  /\ "upload" \in steps /\ up.after /\ ~up.err
  /\ Len(uploaded) = 2
  /\ Urls_[1] = Urls_[2]

(* C4: no file input on the direct lookup and none after the fallback      *)
(* button was tried: the run exits with status 1 and no later step runs.   *)
C4_NoFileInputIsFatal ==
  ("upload" \in steps /\ ~up.direct /\ ~up.after)
    => /\ Done /\ exitCode = ExitFatal /\ exitVia = "fatal"
       /\ steps \cap LaterSteps = {}
       /\ thumbClicks = 0 /\ capObs = <<>> /\ typed = <<>>
       /\ exportClicks = 0 /\ artifacts = {} /\ poll = NoPoll

C4_Witness ==
  /\ "upload" \in steps /\ Done
  /\ ~up.direct /\ up.btn /\ ~up.after /\ ~up.err

(* C5: when the wait for the completion indicator times out, a warning is  *)
(* logged, no artifact is written, and the only exit left closes the       *)
(* browser and has status 0.                                               *)
C5_TimeoutIsSoft ==
  poll.wait = "timeout"
    => /\ PollFailedLine \in log
       /\ artifacts = {}
       /\ pc \in {"close", "done"}
       /\ Done => (browser = "closed" /\ exitCode = ExitNatural /\ exitVia = "natural")

C5_Witness == poll.wait = "timeout" /\ Done /\ artifacts = {}

(* every list of the model with its JSON text *)
EncodedLists == {[list |-> l, raw |-> JSONStringify(l)] : l \in ScriptLists}

(* texts typed for list l when the iterations went as in o *)
RECURSIVE TypedOf(_, _)
TypedOf(l, o) ==
  IF o = <<>> THEN <<>>
  ELSE (IF Head(o) = "typed"
          THEN <<Head(l).text>>
          ELSE <<>>)
       \o TypedOf(Tail(l), Tail(o))

C7_SoftFailureContinues ==
  /\ (ValidPayload /\ obs.timeline = "throw")
       => /\ Warning("Timeline population step had issues") \in log
          /\ Truthy(payload.scriptText) => (pc = "captions" \/ "captions" \in steps)
  /\ (obs.capOpen = "ok" /\ pc \in {"export", "poll", "close", "done"})
       => Len(capObs) = Min(Len(scriptObj), CaptionCap)
  /\ obs.export \in {"absent", "throw"} => (pc = "poll" \/ "poll" \in steps)

(* the end-to-end scenario of C8 *)
C8_Scenario ==
  /\ Urls_ = <<UrlMp4>> /\ payload.hasUrls
  /\ payload.scriptText = SRaw(HookJson)
  /\ payload.outputName = "out.mp4"
  /\ Done
  /\ obs.asset = "ok"
  /\ obs.loginBtn = "found" /\ obs.create = "clicked" /\ up.direct /\ up.after
  /\ obs.timeline = "ok" /\ obs.capOpen = "ok" /\ addTextBtn
  /\ \A k \in 1..Len(capObs) : capObs[k] = "typed"
  /\ obs.export = "clicked"
  /\ poll.wait = "appear" /\ poll.el /\ poll.ref = "url"

C8_Outcome ==
  /\ Len(fetched) = 1 /\ Cardinality(files) = 1
  /\ Len(capObs) = 1 /\ addTextClicks = 1 /\ typed = <<"Hook">>
  /\ exportClicks = 1
  /\ \E st \in {"ok", "notok"} : artifacts = {[path |-> [dir |-> outDir, name |-> "out.mp4"], status |-> st]}
  /\ exitCode = ExitNatural

(* C8 as stated: in the scenario run there is one input download, one      *)
(* caption attempt, one export click, one artifact out.mp4, exit status 0. *)
C8_AsStated == C8_Scenario => C8_Outcome

(* C8 amended: the same, when the fetch of the download reference returns  *)
(* a response.                                                             *)
C8_EndToEnd == (C8_Scenario /\ poll.res \in {"ok", "notok"}) => C8_Outcome

C8_Witness == C8_Scenario /\ poll.res = "ok" /\ faults = 0

(* C9: a run that launched a browser exits through a fatal checkpoint with *)
(* status 1 or through natural completion with status 0, and the session   *)
(* is closed when it exits; this covers a failed initial navigation.       *)
(* Stated of the runs of a payload with a non-empty asset list.            *)
C9_ExitsCloseSession ==
  (ValidPayload /\ Done /\ obs.launch = "ok")
    => /\ exitVia \in {"fatal", "natural"}
       /\ exitVia = "fatal" => exitCode = ExitFatal
       /\ exitVia = "natural" => exitCode = ExitNatural
       /\ browser = "closed"

(* C10: an artifact exists only after the indicator appeared and the fetch *)
(* of its reference returned a response; a non-success response is written *)
(* all the same, a null reference gives no file; both end with status 0.   *)
C10_ArtifactRule ==
  /\ artifacts # {}
       => /\ poll.wait = "appear" /\ poll.el /\ poll.res \in {"ok", "notok"}
          /\ artifacts = {[path |-> OutPath(payload), status |-> poll.res]}
  /\ poll.res = "notok"
       => /\ artifacts = {[path |-> OutPath(payload), status |-> "notok"]}
          /\ pc \in {"close", "done"}
          /\ Done => exitCode = ExitNatural
  /\ poll.ref = "null"
       => /\ artifacts = {}
          /\ pc \in {"close", "done"}
          /\ Done => exitCode = ExitNatural

C10_Witness == poll.res = "notok" /\ Done /\ artifacts # {} /\ exitCode = ExitNatural

====
